---- MODULE Spec2Model ----
(***************************************************************************)
(* Model of app_emg.py: the Streamlit script that parses a Bitalino        *)
(* OpenSignals recording (process_emg_file) and reports RMS / MNF          *)
(* baselines, a percentage-change verdict and a linear-trend verdict.      *)
(*                                                                         *)
(* One behaviour of Spec is one browser session: a sequence of runs of the *)
(* script (uploads and slider-triggered reruns).  st.session_state is the  *)
(* only state that survives from one run to the next.                      *)
(*                                                                         *)
(* Units.  RMS values are in 1/100 mV, MNF values in Hz, thresholds in     *)
(* percent, p-values and alpha in 1/100, baseline_duration in ms.  Times   *)
(* in t_vals are sample indices (t * fs).  Means, percentage changes and   *)
(* slopes are exact rationals [num, den] with den > 0.                     *)
(***************************************************************************)
EXTENDS Integers, Sequences, FiniteSets

\* ------------------------------------------------------------------ bounds
\* Recordings with 1 .. MaxShortWindows+1 feature windows are explored.
MaxShortWindows == 2
\* Recordings with up to MaxExtraWindows windows beyond the baseline prefix.
MaxExtraWindows == 1
\* Stage-level specification: sampling rates 8 .. MaxStageFs, 0 .. MaxStageN samples.
MaxStageFs == 24
MaxStageN == 30

\* --------------------------------------------------------- program constants
DefaultFs == 1000
DefaultResolutionBits == 10
DefaultEmgColumnIndex == 5
DefaultBaselineMs == 5000
NotchFreq == 50
BandLow == 20
BandHigh == 450
NotchOrder == 2
BandOrder == 5
ReturnArity == 10
DefaultThreshold == -10
DefaultAlpha == 5

None == "None"
Unset == 0 - 1

\* ------------------------------------------------------------- rationals
Rat(n, d) == [num |-> n, den |-> d]
RatZero == Rat(0, 1)
RatIsZero(q) == q.num = 0
RatNeg(q) == q.num < 0
\* q <= k for a rational q (den > 0) and an integer k
RatLeqInt(q, k) == q.num <= k * q.den
RatEq(p, q) == p.num * q.den = q.num * p.den

RECURSIVE SumSeq(_)
SumSeq(s) == IF s = <<>> THEN 0 ELSE Head(s) + SumSeq(Tail(s))

Min(a, b) == IF a <= b THEN a ELSE b

\* np.mean of a non-empty list
Mean(s) == Rat(SumSeq(s), Len(s))

\* s[:n] for 0 <= n
Prefix(s, n) == SubSeq(s, 1, Min(n, Len(s)))

\* ------------------------------------------------------------ diagnostics
Diag(level, msg) == [level |-> level, msg |-> msg]
WarnResolutionMissing == Diag("warning", "resolution_for_A1_not_in_header_using_default")
ErrNoA1 == Diag("error", "column_A1_not_found_in_header")
WarnHeaderMissing == Diag("warning", "header_not_found_using_defaults")
ErrJsonDecode == Diag("error", "cannot_read_header_json_using_defaults")
ErrHeaderExtract == Diag("error", "error_extracting_header_using_defaults")
WarnNoBaseline == Diag("warning", "not_enough_data_for_baseline_set_to_0")
ErrProcessFailed == Diag("error", "failed_to_process_file")
SuccessProcessed == Diag("success", "file_processed")
WarnNoTrend == Diag("warning", "not_enough_data_for_trend")
InfoNote == Diag("info", "interpretation_note")
InfoUpload == Diag("info", "upload_a_file_to_start")

\* ------------------------------------------------------- the uploaded text
\* Second line of the file.  kind:
\*   NoLine        the text has fewer than two lines
\*   NoMarker      the second line does not start with '#'
\*   BadJson       '#' followed by text json.loads rejects
\*   NotObject     JSON that is not an object (no .keys())
\*   EmptyObject   {} (no first key)
\*   InfoNotObject {dev: v} where v is no object (no .get())
\*   Info          {dev: {...}} with optional keys "sampling rate", "column", "resolution"
Absent(v) == [tag |-> "absent", v |-> v]
Scalar(v) == [tag |-> "scalar", v |-> v]
Value(v) == [tag |-> "value", v |-> v]

SamplingRates == {0, 500, 2000}
ColumnLists ==
    { <<"nSeq", "I1", "I2", "O1", "O2", "A1">>,
      <<"nSeq", "A1">>,
      <<"nSeq", "I1", "I2", "O1", "O2", "A2">> }
ResolutionLists == { <<4, 1, 1, 1, 1, 10>>, <<4, 6>> }

Header(k, sr, col, res) == [kind |-> k, sr |-> sr, column |-> col, resolution |-> res]
NoInfo == Header("None", Absent(0), Absent(<<>>), Absent(<<>>))
InfoHeaders ==
    { Header("Info", sr, col, res) :
        sr \in {Absent(0)} \cup {Value(v) : v \in SamplingRates},
        col \in {Absent(<<>>), Scalar(<<>>)} \cup {Value(c) : c \in ColumnLists},
        res \in {Absent(<<>>), Scalar(<<>>)} \cup {Value(r) : r \in ResolutionLists} }
PlainHeaders ==
    { Header(k, Absent(0), Absent(<<>>), Absent(<<>>)) :
        k \in {"NoMarker", "BadJson", "NotObject", "EmptyObject", "InfoNotObject"} }
ShortHeader == Header("NoLine", Absent(0), Absent(<<>>), Absent(<<>>))

\* x in list, list.index(x) (0-based, first occurrence)
Contains(list, x) == \E k \in 1..Len(list) : list[k] = x
IndexOf(list, x) == (CHOOSE k \in 1..Len(list) :
                        list[k] = x /\ \A j \in 1..(k - 1) : list[j] # x) - 1

\* dict.get(key, default) on a header field
Get(field, default) == IF field.tag = "absent" THEN default ELSE field.v

\* The locals of process_emg_file when the try block (lines 40-68) is left.
\* returned: the function returned at line 61.
Parsed(f, r, c, diags, returned) ==
    [fs |-> f, resolution_bits |-> r, emg_column_index |-> c,
     diags |-> diags, returned |-> returned]

\* Lines 44-61: the header line starts with '#'.
ExtractHeader(h) ==
    IF h.kind = "BadJson"
    THEN Parsed(DefaultFs, DefaultResolutionBits, DefaultEmgColumnIndex,
                <<ErrJsonDecode>>, FALSE)
    ELSE IF h.kind \in {"NotObject", "EmptyObject", "InfoNotObject"}
    THEN Parsed(DefaultFs, DefaultResolutionBits, DefaultEmgColumnIndex,
                <<ErrHeaderExtract>>, FALSE)
    ELSE
      LET fs1 == Get(h.sr, DefaultFs)
          columns == Get(h.column, <<>>)
      IN  IF h.column.tag = "scalar"
          THEN \* '"A1" in columns' raises TypeError: fs is already assigned
               Parsed(fs1, DefaultResolutionBits, DefaultEmgColumnIndex,
                      <<ErrHeaderExtract>>, FALSE)
          ELSE IF ~Contains(columns, "A1")
          THEN Parsed(fs1, DefaultResolutionBits, DefaultEmgColumnIndex,
                      <<ErrNoA1>>, TRUE)
          ELSE
            LET idx == IndexOf(columns, "A1")
                resolution == Get(h.resolution, <<>>)
            IN  IF h.resolution.tag = "scalar"
                THEN \* len(...) raises TypeError: fs and the index are assigned
                     Parsed(fs1, DefaultResolutionBits, idx, <<ErrHeaderExtract>>, FALSE)
                ELSE IF idx < Len(resolution)
                THEN Parsed(fs1, resolution[idx + 1], idx, <<>>, FALSE)
                ELSE Parsed(fs1, DefaultResolutionBits, idx,
                            <<WarnResolutionMissing>>, FALSE)

\* Lines 36-68.
ParseHeader(h) ==
    IF h.kind \in {"NoLine", "NoMarker"}
    THEN Parsed(DefaultFs, DefaultResolutionBits, DefaultEmgColumnIndex,
                <<WarnHeaderMissing>>, FALSE)
    ELSE ExtractHeader(h)

\* ------------------------------------------------------ the recorded signal
\* A window's rectified segment, by what the feature loop reads of it:
\* ms = mean(segment^2), P = sum(Pxx), fP = sum(f * Pxx) of its Welch spectrum.
\* An all-zero segment has ms = 0 and P = 0.
Level(ms, P, fP) == [ms |-> ms, P |-> P, fP |-> fP]
Silent == Level(0, 0, 0)
Rest == Level(100 * 100, 1, 100)
RmsDrop == Level(85 * 85, 1, 95)
MnfDrop == Level(100 * 100, 1, 80)
BothDrop == Level(85 * 85, 2, 160)
Levels == {Silent, Rest, RmsDrop, MnfDrop, BothDrop}
Amplitudes == {0, 85, 100}

\* np.sqrt on the mean squares above
Sqrt(x) == CHOOSE r \in Amplitudes : r * r = x

\* A conditioned signal: windows 1..c are at level a, the later ones at level b.
Profile(a, b, c) == [a |-> a, b |-> b, c |-> c]
NoProfile == Profile(Silent, Silent, 0)
Segment(prof, k) == IF k <= prof.c THEN prof.a ELSE prof.b

\* int(baseline_duration_sec / (step / fs)), line 111
BaselineWindows(ms, f, st) == (ms * f) \div (1000 * st)

DefaultWindows == BaselineWindows(DefaultBaselineMs, DefaultFs, DefaultFs \div 8)
Profiles ==
    { Profile(a, b, c) : a \in {Rest}, b \in Levels, c \in {1, DefaultWindows} }
    \cup { Profile(Silent, b, c) : b \in {Silent, Rest}, c \in {1, DefaultWindows} }

\* filtfilt's default padlen = 3 * max(len(a), len(b)); a band filter of order n
\* has 2n + 1 coefficients.  filtfilt raises ValueError unless len(x) > padlen.
PadLen(order) == 3 * (2 * order + 1)
FiltfiltOk(order, n) == n > PadLen(order)
\* butter raises ValueError unless 0 < Wn < 1 for both normalised cut-offs
ButterOk(low, high, f) == 0 < 2 * low /\ 2 * high < f

\* notch_filter, lines 17-23
NotchOk(f, n) == ButterOk(NotchFreq - 1, NotchFreq + 1, f) /\ FiltfiltOk(NotchOrder, n)
\* bandpass_filter, lines 11-15
BandpassOk(f, n) == ButterOk(BandLow, BandHigh, f) /\ FiltfiltOk(BandOrder, n)

\* pd.read_csv(..., usecols=[0, emg_column_index]) and df.columns = [2 names]
ReadCsvError(n, ncols, idx) ==
    IF n = 0 THEN "EmptyDataError"
    ELSE IF idx >= ncols \/ idx = 0 THEN "ValueError"
    ELSE None

\* Sample counts around the thresholds of the default geometry (fs = 1000)
SampleCounts ==
    LET w == DefaultFs \div 4
        st == DefaultFs \div 8
    IN  {0, 1, PadLen(NotchOrder), PadLen(NotchOrder) + 1,
         PadLen(BandOrder), PadLen(BandOrder) + 1, w - 1}
        \cup { w + k * st : k \in 0..MaxShortWindows }
        \cup { w + k * st - 1 : k \in 1..MaxShortWindows }
        \cup { w + (DefaultWindows - 1 + j) * st : j \in 0..MaxExtraWindows }
ColumnCounts == {2, 6}

\* ------------------------------------------------------------------ state
VARIABLES
    session_state,          \* st.session_state: survives reruns
    fs_before,              \* st.session_state's fs as the current run found it
    uploaded_file,          \* None, "one_line" (fewer than two lines) or "text"
    pc,                     \* position of the current run of the script
    error,                  \* the uncaught exception that ended the run, or None
    out,                    \* st.warning / st.error / ... calls of this run, in order
    info,                   \* the header line as read (live in lines 42-68 only)
    fs, resolution_bits, emg_column_index, win_size, step,
    df,                     \* [len: rows read, prof: the conditioned signal]
    i,                      \* the feature loop's next start index
    rms_vals, mnf_vals, t_vals,
    baseline_duration_ms,
    rms_baseline, mnf_baseline,
    slope_rms, p_value_rms, slope_mnf, p_value_mnf,
    ret,                    \* the tuple process_emg_file returned
    df_raw,                 \* caller's first unpacked value: None, "df" or "unbound"
    shown,                  \* header information written to the page, or NotShown
    rms_change_percent, mnf_change_percent,
    FATIGUE_THRESHOLD_MNF, FATIGUE_THRESHOLD_RMS, SIGNIFICANCE_ALPHA,
    status, status_tren     \* the two STATUS headings, "none" when not written

locals == <<info, fs, resolution_bits, emg_column_index, win_size, step, df, i,
            rms_vals, mnf_vals, t_vals, baseline_duration_ms,
            rms_baseline, mnf_baseline,
            slope_rms, p_value_rms, slope_mnf, p_value_mnf, ret>>
page == <<df_raw, shown, rms_change_percent, mnf_change_percent,
          FATIGUE_THRESHOLD_MNF, FATIGUE_THRESHOLD_RMS, SIGNIFICANCE_ALPHA,
          status, status_tren>>
vars == <<session_state, fs_before, uploaded_file, pc, error, out, locals, page>>

\* A value that is None in the code where the model holds a rational
NoneRat == Rat(0, 0)
IsNone(q) == q.den = 0

HeaderInfo(f, r, c, w) == [fs |-> f, resolution_bits |-> r, emg_column_index |-> c, win_size |-> w]
EmptySession == HeaderInfo(Unset, Unset, Unset, NoneRat)
NotShown == HeaderInfo(Unset, Unset, Unset, NoneRat)
NoDf == [len |-> Unset, prof |-> NoProfile]

\* Every name a run of the script binds, before it binds it.
FreshRun ==
    /\ error = None /\ out = <<>> /\ info = NoInfo
    /\ fs = Unset /\ resolution_bits = Unset /\ emg_column_index = Unset
    /\ win_size = Unset /\ step = Unset
    /\ df = NoDf /\ i = 0
    /\ rms_vals = <<>> /\ mnf_vals = <<>> /\ t_vals = <<>>
    /\ baseline_duration_ms = Unset
    /\ rms_baseline = RatZero /\ mnf_baseline = RatZero
    /\ slope_rms = NoneRat /\ p_value_rms = Unset
    /\ slope_mnf = NoneRat /\ p_value_mnf = Unset
    /\ ret = <<>> /\ df_raw = "unbound" /\ shown = NotShown
    /\ rms_change_percent = NoneRat /\ mnf_change_percent = NoneRat
    /\ FATIGUE_THRESHOLD_MNF = Unset /\ FATIGUE_THRESHOLD_RMS = Unset
    /\ SIGNIFICANCE_ALPHA = Unset
    /\ status = "none" /\ status_tren = "none"

\* The same, as the start of a new run
ResetRun ==
    /\ error' = None /\ out' = <<>> /\ info' = NoInfo
    /\ fs' = Unset /\ resolution_bits' = Unset /\ emg_column_index' = Unset
    /\ win_size' = Unset /\ step' = Unset
    /\ df' = NoDf /\ i' = 0
    /\ rms_vals' = <<>> /\ mnf_vals' = <<>> /\ t_vals' = <<>>
    /\ baseline_duration_ms' = Unset
    /\ rms_baseline' = RatZero /\ mnf_baseline' = RatZero
    /\ slope_rms' = NoneRat /\ p_value_rms' = Unset
    /\ slope_mnf' = NoneRat /\ p_value_mnf' = Unset
    /\ ret' = <<>> /\ df_raw' = "unbound" /\ shown' = NotShown
    /\ rms_change_percent' = NoneRat /\ mnf_change_percent' = NoneRat
    /\ FATIGUE_THRESHOLD_MNF' = Unset /\ FATIGUE_THRESHOLD_RMS' = Unset
    /\ SIGNIFICANCE_ALPHA' = Unset
    /\ status' = "none" /\ status_tren' = "none"

Init ==
    /\ session_state = EmptySession
    /\ fs_before = Unset
    /\ uploaded_file = None
    /\ pc = "idle"
    /\ FreshRun

\* ------------------------------------------------------------- the script
\* Streamlit runs the script from the top on every event: an upload, a removed
\* file, a moved slider.  Only st.session_state is carried over.
RunScript ==
    /\ pc \in {"idle", "done", "crashed"}
    /\ ResetRun
    /\ fs_before' = session_state.fs
    /\ UNCHANGED session_state
    /\ \E f \in {None, "one_line", "text"} :
         /\ uploaded_file' = f
         /\ pc' = IF f = None THEN "upload_prompt" ELSE "header"

\* Lines 264-265
UploadPrompt ==
    /\ pc = "upload_prompt"
    /\ out' = Append(out, InfoUpload)
    /\ pc' = "done"
    /\ UNCHANGED <<fs_before, session_state, uploaded_file, error, locals, page>>

NoneTuple == <<None, None, None, None, None, None, None, None, None>>
ReturnTuple == <<"df", "t_vals", "rms_vals", "mnf_vals", "rms_baseline", "mnf_baseline",
                 "slope_rms", "p_value_rms", "slope_mnf", "p_value_mnf">>

\* Lines 33-68 of process_emg_file (called at line 139 with the default
\* baseline_duration_sec = 5)
HeaderStep ==
    /\ pc = "header"
    /\ \E h \in (IF uploaded_file = "one_line" THEN {ShortHeader}
                 ELSE PlainHeaders \cup InfoHeaders) :
         LET r == ParseHeader(h)
         IN  /\ info' = h
             /\ fs' = r.fs
             /\ resolution_bits' = r.resolution_bits
             /\ emg_column_index' = r.emg_column_index
             /\ out' = out \o r.diags
             /\ ret' = IF r.returned THEN NoneTuple ELSE ret
             /\ pc' = IF r.returned THEN "unpack" ELSE "window"
    /\ baseline_duration_ms' = DefaultBaselineMs
    /\ UNCHANGED <<fs_before, session_state, uploaded_file, error, win_size, step, df, i,
                   rms_vals, mnf_vals, t_vals, rms_baseline, mnf_baseline,
                   slope_rms, p_value_rms, slope_mnf, p_value_mnf, page>>

\* Variant: the values written only while st.session_state holds none
StoreSessionOnce(f, r, c, w) ==
    IF session_state.fs # Unset THEN session_state
    ELSE IF f = 0 THEN HeaderInfo(f, r, c, session_state.win_size)
    ELSE HeaderInfo(f, r, c, Rat(w, f))
\* Lines 74-77: the writes to st.session_state, in order; win_size / fs raises
\* ZeroDivisionError for fs = 0 after the first three are done.
StoreSession(f, r, c, w) ==
    IF f = 0 THEN HeaderInfo(f, r, c, session_state.win_size)
    ELSE HeaderInfo(f, r, c, Rat(w, f))

\* Lines 70-77
WindowStep ==
    /\ pc = "window"
    /\ win_size' = fs \div 4
    /\ step' = fs \div 8
    /\ session_state' = StoreSession(fs, resolution_bits, emg_column_index, fs \div 4)
    /\ info' = NoInfo
    /\ IF fs = 0
       THEN pc' = "crashed" /\ error' = "ZeroDivisionError"
       ELSE pc' = "load" /\ error' = error
    /\ UNCHANGED <<fs_before, uploaded_file, out, fs, resolution_bits,
                   emg_column_index, df, i,
                   rms_vals, mnf_vals, t_vals, baseline_duration_ms,
                   rms_baseline, mnf_baseline,
                   slope_rms, p_value_rms, slope_mnf, p_value_mnf, ret, page>>

\* Lines 81-83
LoadStep ==
    /\ pc = "load"
    /\ \E n \in (IF uploaded_file = "one_line" THEN {0, 1} ELSE SampleCounts),
          ncols \in ColumnCounts :
         LET e == ReadCsvError(n, ncols, emg_column_index)
         IN  IF e # None
             THEN pc' = "crashed" /\ error' = e /\ df' = df
             ELSE pc' = "notch" /\ error' = error /\ df' = [df EXCEPT !.len = n]
    /\ UNCHANGED <<fs_before, session_state, uploaded_file, out, info, fs, resolution_bits,
                   emg_column_index, win_size, step, i, rms_vals, mnf_vals, t_vals,
                   baseline_duration_ms, rms_baseline, mnf_baseline,
                   slope_rms, p_value_rms, slope_mnf, p_value_mnf, ret, page>>

\* Lines 86-89: conversion, DC removal, notch filter
NotchStep ==
    /\ pc = "notch"
    /\ IF NotchOk(fs, df.len)
       THEN pc' = "bandpass" /\ error' = error
       ELSE pc' = "crashed" /\ error' = "ValueError"
    /\ UNCHANGED <<fs_before, session_state, uploaded_file, out, locals, page>>

\* Lines 90-91: band-pass filter and rectification
BandpassStep ==
    /\ pc = "bandpass"
    /\ IF BandpassOk(fs, df.len)
       THEN /\ pc' = "features" /\ error' = error
            /\ \E prof \in Profiles : df' = [df EXCEPT !.prof = prof]
       ELSE pc' = "crashed" /\ error' = "ValueError" /\ df' = df
    /\ UNCHANGED <<fs_before, session_state, uploaded_file, out, info, fs, resolution_bits,
                   emg_column_index, win_size, step, i, rms_vals, mnf_vals, t_vals,
                   baseline_duration_ms, rms_baseline, mnf_baseline,
                   slope_rms, p_value_rms, slope_mnf, p_value_mnf, ret, page>>

\* range(0, len(df) - win_size + 1, step), line 96 (step > 0)
LoopStop(n, w) == n - w + 1
\* Variant: the stop written without its + 1
InRangeExclusive(j, n, w) == j < n - w
InRange(j, n, w) == j < LoopStop(n, w)

\* Line 100 and lines 102-103
Rms(segment) == Sqrt(segment.ms)
Mnf(segment) == IF segment.P > 0 THEN segment.fP \div segment.P ELSE 0

\* Lines 96-107, one iteration.  t is kept as the sample index i + win_size // 2
\* (df['time'] is index / fs); .iloc raises IndexError past the last row.
FeatureStep ==
    /\ pc = "features"
    /\ InRange(i, df.len, win_size)
    /\ LET segment == Segment(df.prof, i \div step + 1)
           center == i + win_size \div 2
       IN  IF center >= df.len
           THEN /\ pc' = "crashed" /\ error' = "IndexError"
                /\ UNCHANGED <<i, rms_vals, mnf_vals, t_vals>>
           ELSE /\ pc' = pc /\ error' = error
                /\ rms_vals' = Append(rms_vals, Rms(segment))
                /\ mnf_vals' = Append(mnf_vals, Mnf(segment))
                /\ t_vals' = Append(t_vals, center)
                /\ i' = i + step
    /\ UNCHANGED <<fs_before, session_state, uploaded_file, out, info, fs, resolution_bits,
                   emg_column_index, win_size, step, df, baseline_duration_ms,
                   rms_baseline, mnf_baseline,
                   slope_rms, p_value_rms, slope_mnf, p_value_mnf, ret, page>>

\* The loop of line 96 is exhausted
FeatureExit ==
    /\ pc = "features"
    /\ ~InRange(i, df.len, win_size)
    /\ pc' = "baseline"
    /\ UNCHANGED <<fs_before, session_state, uploaded_file, error, out, locals, page>>

\* Line 111
NumWindowsForBaseline(ms, f, st, vals) == Min(BaselineWindows(ms, f, st), Len(vals))
\* Variant: the slice taken one window too long
BaselineOneMore(vals, n) == IF n = 0 THEN RatZero ELSE Mean(Prefix(vals, n + 1))
\* Lines 110, 113-117 for one of the two metrics
Baseline(vals, n) == IF n = 0 THEN RatZero ELSE Mean(Prefix(vals, n))

\* Lines 110-117
BaselineStep ==
    /\ pc = "baseline"
    /\ LET n == NumWindowsForBaseline(baseline_duration_ms, fs, step, rms_vals)
       IN  /\ out' = IF n = 0 THEN Append(out, WarnNoBaseline) ELSE out
           /\ rms_baseline' = Baseline(rms_vals, n)
           /\ mnf_baseline' = Baseline(mnf_vals, n)
    /\ pc' = "trend"
    /\ UNCHANGED <<fs_before, session_state, uploaded_file, error, info, fs, resolution_bits,
                   emg_column_index, win_size, step, df, i, rms_vals, mnf_vals, t_vals,
                   baseline_duration_ms,
                   slope_rms, p_value_rms, slope_mnf, p_value_mnf, ret, page>>

\* linregress(x, y).slope = (n*Sxy - Sx*Sy) / (n*Sxx - Sx*Sx).  The regressor is
\* the window's ordinal (t - t0) / (step / fs), so the slope is per window
\* stride: the code's slope per second times step / fs, of the same sign.
Ordinals(ts, w, st) == [k \in 1..Len(ts) |-> (ts[k] - w \div 2) \div st]
Products(xs, ys) == [k \in 1..Len(xs) |-> xs[k] * ys[k]]
Slope(xs, ys) ==
    LET n == Len(xs)
    IN  Rat(n * SumSeq(Products(xs, ys)) - SumSeq(xs) * SumSeq(ys),
            n * SumSeq(Products(xs, xs)) - SumSeq(xs) * SumSeq(xs))

\* The two-sided p-value of the slope is not computed: any of these, in 1/100
PValues == {1, 7}

\* Line 122
EnoughForTrend(ts) == Len(ts) > 1

\* Lines 120-127
TrendStep ==
    /\ pc = "trend"
    /\ IF EnoughForTrend(t_vals)
       THEN LET xs == Ordinals(t_vals, win_size, step)
            IN  /\ slope_rms' = Slope(xs, rms_vals)
                /\ slope_mnf' = Slope(xs, mnf_vals)
                /\ p_value_rms' \in PValues
                /\ p_value_mnf' \in PValues
       ELSE UNCHANGED <<slope_rms, p_value_rms, slope_mnf, p_value_mnf>>
    /\ ret' = ReturnTuple
    /\ pc' = "unpack"
    /\ UNCHANGED <<fs_before, session_state, uploaded_file, error, out, info, fs, resolution_bits,
                   emg_column_index, win_size, step, df, i, rms_vals, mnf_vals, t_vals,
                   baseline_duration_ms, rms_baseline, mnf_baseline, page>>

\* Line 139: ten targets; Python raises ValueError when the tuple's length differs
UnpackOk(tuple) == Len(tuple) = ReturnArity

\* Line 139, after the call returned
UnpackStep ==
    /\ pc = "unpack"
    /\ IF UnpackOk(ret)
       THEN pc' = "report" /\ error' = error /\ df_raw' = ret[1]
       ELSE pc' = "crashed" /\ error' = "ValueError" /\ df_raw' = df_raw
    /\ UNCHANGED <<fs_before, session_state, uploaded_file, out, locals, shown,
                   rms_change_percent, mnf_change_percent,
                   FATIGUE_THRESHOLD_MNF, FATIGUE_THRESHOLD_RMS, SIGNIFICANCE_ALPHA,
                   status, status_tren>>

\* st.session_state.get(key, default), lines 148-150 and 181
SessionGet(value, default) == IF value = Unset THEN default ELSE value
ShownHeader(ss) ==
    HeaderInfo(SessionGet(ss.fs, DefaultFs),
               SessionGet(ss.resolution_bits, DefaultResolutionBits),
               SessionGet(ss.emg_column_index, DefaultEmgColumnIndex),
               IF IsNone(ss.win_size) THEN Rat(1, 4) ELSE ss.win_size)

\* Lines 141-206: failure message, or header information, baselines and plots
ReportStep ==
    /\ pc = "report"
    /\ IF df_raw = None
       THEN /\ out' = Append(out, ErrProcessFailed)
            /\ shown' = shown
            /\ pc' = "done"
       ELSE /\ out' = Append(out, SuccessProcessed)
            /\ shown' = ShownHeader(session_state)
            /\ pc' = "fatigue"
    /\ UNCHANGED <<fs_before, session_state, uploaded_file, error, locals, df_raw,
                   rms_change_percent, mnf_change_percent,
                   FATIGUE_THRESHOLD_MNF, FATIGUE_THRESHOLD_RMS, SIGNIFICANCE_ALPHA,
                   status, status_tren>>

\* Line 211
FatigueGate(ts, rb, mb) == Len(ts) > 0 /\ ~RatIsZero(rb) /\ ~RatIsZero(mb)

\* Lines 215-216: ((final - baseline) / baseline) * 100 for baseline = num / den
ChangePercent(final, baseline) ==
    IF baseline.num > 0
    THEN Rat((final * baseline.den - baseline.num) * 100, baseline.num)
    ELSE Rat((baseline.num - final * baseline.den) * 100, 0 - baseline.num)

\* Variant: the comparison written strict
IsFatigueStrict(change, threshold) == change.num < threshold * change.den
\* Lines 226-227
IsFatigue(change, threshold) == RatLeqInt(change, threshold)

\* Lines 229-236
Status(is_fatigue_mnf, is_fatigue_rms) ==
    IF is_fatigue_mnf /\ is_fatigue_rms THEN "fatigue_mnf_and_rms"
    ELSE IF is_fatigue_mnf THEN "fatigue_mnf_strong_indicator"
    ELSE IF is_fatigue_rms THEN "fatigue_rms_needs_confirmation"
    ELSE "no_fatigue"

\* Lines 247-248
IsFatigueTrend(slope, p_value, alpha) == RatNeg(slope) /\ p_value < alpha

\* Lines 250-257
StatusTren(is_fatigue_trend_mnf, is_fatigue_trend_rms) ==
    IF is_fatigue_trend_mnf /\ is_fatigue_trend_rms THEN "trend_mnf_and_rms"
    ELSE IF is_fatigue_trend_mnf THEN "trend_mnf"
    ELSE IF is_fatigue_trend_rms THEN "trend_rms_needs_confirmation"
    ELSE "no_trend"

\* Line 241
TrendDefined(sm, sr) == ~IsNone(sm) /\ ~IsNone(sr)

\* Slider positions tried (the sliders range over -50..0 and 0.01..0.1)
Thresholds == {DefaultThreshold - 5, DefaultThreshold}
Alphas == {DefaultAlpha, 2 * DefaultAlpha}

\* Lines 209-262
FatigueStep ==
    /\ pc = "fatigue"
    /\ pc' = "done"
    /\ IF FatigueGate(t_vals, rms_baseline, mnf_baseline)
       THEN
         LET rc == ChangePercent(rms_vals[Len(rms_vals)], rms_baseline)
             mc == ChangePercent(mnf_vals[Len(mnf_vals)], mnf_baseline)
         IN  /\ rms_change_percent' = rc
             /\ mnf_change_percent' = mc
             /\ \E tm \in Thresholds, tr \in Thresholds :
                  /\ FATIGUE_THRESHOLD_MNF' = tm
                  /\ FATIGUE_THRESHOLD_RMS' = tr
                  /\ status' = Status(IsFatigue(mc, tm), IsFatigue(rc, tr))
             /\ IF TrendDefined(slope_mnf, slope_rms)
                THEN /\ \E alpha \in Alphas :
                          /\ SIGNIFICANCE_ALPHA' = alpha
                          /\ status_tren' =
                               StatusTren(IsFatigueTrend(slope_mnf, p_value_mnf, alpha),
                                          IsFatigueTrend(slope_rms, p_value_rms, alpha))
                     /\ out' = Append(out, InfoNote)
                ELSE /\ out' = out \o <<WarnNoTrend, InfoNote>>
                     /\ UNCHANGED <<SIGNIFICANCE_ALPHA, status_tren>>
       ELSE UNCHANGED <<out, rms_change_percent, mnf_change_percent,
                        FATIGUE_THRESHOLD_MNF, FATIGUE_THRESHOLD_RMS,
                        SIGNIFICANCE_ALPHA, status, status_tren>>
    /\ UNCHANGED <<fs_before, session_state, uploaded_file, error, locals, df_raw, shown>>

Next ==
    \/ RunScript
    \/ UploadPrompt
    \/ HeaderStep
    \/ WindowStep
    \/ LoadStep
    \/ NotchStep
    \/ BandpassStep
    \/ FeatureStep
    \/ FeatureExit
    \/ BaselineStep
    \/ TrendStep
    \/ UnpackStep
    \/ ReportStep
    \/ FatigueStep

Spec == Init /\ [][Next]_vars

\* --------------------------------------------------- the stages on their own
\* The feature loop and the baseline estimate of process_emg_file, entered at
\* line 94 with any sampling rate, sample count and baseline duration: the
\* script itself reaches them only with fs > 900 and the default 5 s.
StageInputs ==
    { <<f, n>> : f \in 8..MaxStageFs, n \in 0..MaxStageN }
    \cup { <<DefaultFs, n>> : n \in SampleCounts \cup {4 * DefaultFs} }
StageProfiles ==
    { Profile(Rest, RmsDrop, 1), Profile(Rest, BothDrop, 3),
      Profile(Silent, Rest, 2), Profile(MnfDrop, MnfDrop, 1) }
BaselineDurations == {0, 125, 250, 1000, DefaultBaselineMs}

StageInit ==
    /\ session_state = EmptySession
    /\ fs_before = Unset
    /\ uploaded_file = "text"
    /\ pc = "features"
    /\ error = None /\ out = <<>> /\ info = NoInfo
    /\ \E in \in StageInputs :
         /\ fs = in[1]
         /\ win_size = in[1] \div 4
         /\ step = in[1] \div 8
         /\ \E prof \in StageProfiles : df = [len |-> in[2], prof |-> prof]
    /\ resolution_bits = DefaultResolutionBits
    /\ emg_column_index = DefaultEmgColumnIndex
    /\ i = 0
    /\ rms_vals = <<>> /\ mnf_vals = <<>> /\ t_vals = <<>>
    /\ baseline_duration_ms \in BaselineDurations
    /\ rms_baseline = RatZero /\ mnf_baseline = RatZero
    /\ slope_rms = NoneRat /\ p_value_rms = Unset
    /\ slope_mnf = NoneRat /\ p_value_mnf = Unset
    /\ ret = <<>> /\ df_raw = "unbound" /\ shown = NotShown
    /\ rms_change_percent = NoneRat /\ mnf_change_percent = NoneRat
    /\ FATIGUE_THRESHOLD_MNF = Unset /\ FATIGUE_THRESHOLD_RMS = Unset
    /\ SIGNIFICANCE_ALPHA = Unset
    /\ status = "none" /\ status_tren = "none"

StageNext ==
    \/ FeatureStep
    \/ FeatureExit
    \/ BaselineStep

SpecStages == StageInit /\ [][StageNext]_vars

\* ------------------------------------------------------------------ claims
InOut(d) == \E k \in 1..Len(out) : out[k] = d
RunEnded == pc \in {"done", "crashed"}
Processed == pc = "done" /\ df_raw = "df"

\* C1: a header that parses but declares no "A1" makes process_emg_file return
\* its all-None result, and the caller handles it in the 'df_raw is None'
\* branch: a processing-failure message, no header information, no verdict.
C1_MissingChannelHandled ==
    (RunEnded /\ ret = NoneTuple) =>
        /\ pc = "done"
        /\ df_raw = None
        /\ InOut(ErrProcessFailed)
        /\ shown = NotShown
        /\ status = "none" /\ status_tren = "none"

\* C2: when the header line is missing, unmarked, or fails to decode or to
\* extract, the pipeline continues with exactly fs = 1000, 10 bits, column 5
\* and one diagnostic, a warning for a missing header and an error for
\* malformed JSON.
C2_FallbackUsesExactDefaults ==
    (pc = "window" /\ (InOut(WarnHeaderMissing) \/ InOut(ErrJsonDecode)
                        \/ InOut(ErrHeaderExtract))) =>
        /\ fs = DefaultFs
        /\ resolution_bits = DefaultResolutionBits
        /\ emg_column_index = DefaultEmgColumnIndex
        /\ Len(out) = 1
        /\ (info.kind \in {"NoLine", "NoMarker"} => out[1] = WarnHeaderMissing)
        /\ (info.kind = "BadJson" => out[1] = ErrJsonDecode)
        /\ WarnHeaderMissing # ErrJsonDecode

\* A default stands in for a value the header does not supply
DefaultSubstituted ==
    \/ info.kind # "Info"
    \/ info.sr.tag # "value"
    \/ info.column.tag # "value"
    \/ info.resolution.tag # "value"
    \/ emg_column_index >= Len(info.resolution.v)

\* C3: whenever header parsing lets a default (1000 Hz, 10 bits, column 5)
\* stand in for a header value, a diagnostic has been emitted before
\* processing continues.
C3_NoSilentDefault ==
    (pc = "window" /\ DefaultSubstituted) => out # <<>>

\* C4: the feature loop yields floor((N - win_size) / step) + 1 windows when
\* N >= win_size and none otherwise; the window starts are 0, step, 2*step, ...
\* and every window ends inside the signal.
C4_WindowCount ==
    /\ pc # "crashed"
    /\ Len(mnf_vals) = Len(rms_vals) /\ Len(t_vals) = Len(rms_vals)
    /\ pc # "features" =>
         Len(rms_vals) = IF df.len >= win_size
                         THEN (df.len - win_size) \div step + 1 ELSE 0
    /\ \A k \in 1..Len(t_vals) :
         LET start == t_vals[k] - win_size \div 2
         IN  start = (k - 1) * step /\ start + win_size <= df.len

\* 4000 samples at 1000 Hz have given their 31 windows
C4_Witness ==
    pc = "baseline" /\ fs = DefaultFs /\ df.len = 4 * DefaultFs /\ Len(rms_vals) = 31

\* C5: with K = floor(baseline_duration / (step / fs)) and L windows, the
\* baseline RMS and MNF are the means of exactly the first min(K, L) windows,
\* and are both 0 with the insufficient-data warning when min(K, L) = 0.
C5_BaselinePrefix ==
    pc = "trend" =>
        LET K == (baseline_duration_ms * fs) \div (1000 * step)
            n == IF K <= Len(rms_vals) THEN K ELSE Len(rms_vals)
        IN  IF n = 0
            THEN /\ rms_baseline = RatZero /\ mnf_baseline = RatZero
                 /\ InOut(WarnNoBaseline)
            ELSE /\ rms_baseline = Rat(SumSeq(SubSeq(rms_vals, 1, n)), n)
                 /\ mnf_baseline = Rat(SumSeq(SubSeq(mnf_vals, 1, n)), n)
                 /\ ~InOut(WarnNoBaseline)

\* A baseline of at least two windows, followed by a window of another level
C5_Witness ==
    /\ pc = "trend"
    /\ LET K == (baseline_duration_ms * fs) \div (1000 * step)
       IN  /\ 2 <= K /\ K < Len(rms_vals)
           /\ rms_vals[K + 1] # rms_vals[1]
           /\ rms_baseline = Rat(K * rms_vals[1], K)

\* (final - baseline) / baseline * 100 <= threshold, for baseline = num / den > 0
PercentAtMost(final, baseline, threshold) ==
    (final * baseline.den - baseline.num) * 100 <= threshold * baseline.num

\* C6: with a non-zero baseline, fatigue-by-MNF holds iff the MNF change in
\* percent is <= its threshold, fatigue-by-RMS likewise, and exactly one of
\* the four verdicts is reported, in the order both, MNF only, RMS only, none.
C6_PercentageVerdict ==
    status # "none" =>
        LET by_mnf == PercentAtMost(mnf_vals[Len(mnf_vals)], mnf_baseline,
                                    FATIGUE_THRESHOLD_MNF)
            by_rms == PercentAtMost(rms_vals[Len(rms_vals)], rms_baseline,
                                    FATIGUE_THRESHOLD_RMS)
        IN  /\ rms_baseline.num > 0 /\ mnf_baseline.num > 0
            /\ status = (IF by_mnf /\ by_rms THEN "fatigue_mnf_and_rms"
                         ELSE IF by_mnf THEN "fatigue_mnf_strong_indicator"
                         ELSE IF by_rms THEN "fatigue_rms_needs_confirmation"
                         ELSE "no_fatigue")

\* RMS 1.00 -> 0.85 mV, MNF 100 -> 95 Hz, both thresholds at -10 %
C6_Witness ==
    /\ status = "fatigue_rms_needs_confirmation"
    /\ RatEq(rms_baseline, Rat(100, 1)) /\ rms_vals[Len(rms_vals)] = 85
    /\ RatEq(mnf_baseline, Rat(100, 1)) /\ mnf_vals[Len(mnf_vals)] = 95
    /\ FATIGUE_THRESHOLD_MNF = DefaultThreshold
    /\ FATIGUE_THRESHOLD_RMS = DefaultThreshold

\* C7: after a successful processing, at most one window means no trend
\* results, no trend verdict and a trend-skipped diagnostic; more than one
\* means both trend results and a trend verdict beside the percentage verdict.
C7_TrendReported ==
    Processed =>
        IF Len(t_vals) <= 1
        THEN /\ IsNone(slope_rms) /\ IsNone(slope_mnf)
             /\ p_value_rms = Unset /\ p_value_mnf = Unset
             /\ status_tren = "none"
             /\ InOut(WarnNoTrend)
        ELSE /\ ~IsNone(slope_rms) /\ ~IsNone(slope_mnf)
             /\ status_tren # "none"
             /\ status # "none"

\* A diagnostic of this run other than the header's and the success message
ExplainsSkip ==
    \E k \in 1..Len(out) :
        out[k] \notin {WarnHeaderMissing, ErrJsonDecode, ErrHeaderExtract,
                       WarnResolutionMissing, SuccessProcessed}

\* C8: with a zero baseline RMS or MNF, or no feature window, no percentage
\* change is computed, no verdict is reported and a diagnostic explains the
\* skipped classification.
C8_DegenerateBaselineDiagnosed ==
    (Processed /\ (Len(t_vals) = 0 \/ RatIsZero(rms_baseline)
                    \/ RatIsZero(mnf_baseline))) =>
        /\ IsNone(rms_change_percent) /\ IsNone(mnf_change_percent)
        /\ status = "none" /\ status_tren = "none"
        /\ ExplainsSkip

\* C9: a recording with fewer samples than one feature window (here at the
\* default 1000 Hz, which the filters accept) does not crash: the run ends
\* with no feature window, baseline (0, 0), no trend and no verdict.
C9_ShortRecordingDegrades ==
    (RunEnded /\ fs = DefaultFs
       /\ (error = "EmptyDataError" \/ (df.len # Unset /\ df.len < win_size))) =>
        /\ pc = "done" /\ error = None
        /\ rms_vals = <<>> /\ mnf_vals = <<>> /\ t_vals = <<>>
        /\ rms_baseline = RatZero /\ mnf_baseline = RatZero
        /\ IsNone(slope_rms) /\ IsNone(slope_mnf)
        /\ status = "none" /\ status_tren = "none"

\* C10: header information on the page is that of the recording processed in
\* the same run, whatever earlier runs left in st.session_state.
C10_ShownHeaderIsCurrent ==
    shown # NotShown =>
        shown = HeaderInfo(fs, resolution_bits, emg_column_index, Rat(win_size, fs))

\* Header information shown by a run that found another rate in the session
C10_Witness ==
    /\ shown # NotShown
    /\ fs_before # Unset /\ fs_before # fs
    /\ shown.fs = fs

====
